---- MODULE Spec2Model ----
(***************************************************************************)
(* bevy_joycons (src/src/lib.rs): the Joycons registry, the connection     *)
(* scan detect_connection_changes, the per-device joycon_polling_thread    *)
(* with its Pinboard hand-off, and the translator pass update_joycon_data. *)
(*                                                                         *)
(* Encodings.                                                              *)
(*  Option<T>      None is <<>>, Some(x) is <<x>>.                         *)
(*  Result<T, E>   a tuple <<"Ok", ...>> or <<"Err", ...>>.                *)
(*  usize          the identifier counter starts at 0x8000_0000, which is  *)
(*                 2^31: it is kept as two limbs <<hi, lo>> of value       *)
(*                 hi * 2^16 + lo.                                         *)
(*  f64 / f32      a stick coordinate v stands for the real number         *)
(*                 v * 2^-30, |v| < 2^31.  Every such number is an f64;    *)
(*                 it is an f32 only if it has at most 24 significant      *)
(*                 bits, and `as f32` rounds to the nearest such number,   *)
(*                 ties to even.                                           *)
(*  Arc<Pinboard>  an address into the heap `pinboards`.                   *)
(***************************************************************************)
EXTENDS Integers, Sequences, FiniteSets, TLC

\* ---------------------------------------------------------------- bounds
\* Longest bus listing one refresh can return.
MaxList == 2

\* ------------------------------------------------------------- constants
NINTENDO_VENDOR_ID == 1406
JOYCON_L_BT == 8198
JOYCON_R_BT == 8199
PRO_CONTROLLER == 8201
JOYCON_CHARGING_GRIP == 8206
HID_IDS == {JOYCON_L_BT, JOYCON_R_BT, PRO_CONTROLLER, JOYCON_CHARGING_GRIP}

\* 0x8000_0000 = 0x8000 * 2^16 + 0
STARTING_GAMEPAD_ID == <<32768, 0>>

None == <<>>
Some(x) == <<x>>

\* ------------------------------------------------------------ environment
\* Serial numbers of the controllers that can show up on the bus.
Serials == {"A", "B"}

\* What hidapi can list: two controllers (one of them also with an
\* unreadable product string), a controller without a serial number, and
\* two devices the filter must reject (foreign vendor, foreign product).
DeviceInfos ==
    { [vendor_id |-> NINTENDO_VENDOR_ID, product_id |-> JOYCON_L_BT,
       serial_number |-> Some("A"), product_string |-> Some("Joy-Con (L)")],
      [vendor_id |-> NINTENDO_VENDOR_ID, product_id |-> JOYCON_L_BT,
       serial_number |-> Some("A"), product_string |-> None],
      [vendor_id |-> NINTENDO_VENDOR_ID, product_id |-> PRO_CONTROLLER,
       serial_number |-> Some("B"), product_string |-> Some("Pro Controller")],
      [vendor_id |-> NINTENDO_VENDOR_ID, product_id |-> JOYCON_R_BT,
       serial_number |-> None, product_string |-> Some("Joy-Con (R)")],
      [vendor_id |-> NINTENDO_VENDOR_ID + 1, product_id |-> JOYCON_L_BT,
       serial_number |-> Some("D"), product_string |-> Some("Other vendor")],
      [vendor_id |-> NINTENDO_VENDOR_ID, product_id |-> JOYCON_L_BT - 1,
       serial_number |-> Some("D"), product_string |-> Some("Other product")] }

Listings == UNION { [1..n -> DeviceInfos] : n \in 0..MaxList }

WhichControllers == {"LeftJoyCon", "RightJoyCon", "ProController"}

\* Stick coordinates, in units of 2^-30.
\*   536870912 = 0.5, 268435456 = 0.25, -134217728 = -0.125,
\*   805306368 = 0.75: all of them f32 numbers.
\*   107374182 (about 0.1), 1073741825 (1 + 2^-30), -536870945, 1073742016:
\*   f64 numbers that are not f32 numbers.
Vec2(x, y) == [x |-> x, y |-> y]
ReportExact == [left_stick |-> Vec2(536870912, 268435456),
                right_stick |-> Vec2(-134217728, 805306368)]
ReportFine == [left_stick |-> Vec2(107374182, 1073741825),
               right_stick |-> Vec2(-536870945, 1073742016)]
Reports == {ReportExact, ReportFine}

\* The fallible steps of Tracker::new, in order.
InitSteps == <<"open_device", "JoyconDevice::new", "load_calibration",
               "get_dev_info", "which_controller", "use_spi_colors",
               "read_spi", "tick">>
InitStepSet == {InitSteps[i] : i \in 1..Len(InitSteps)}

\* How one device answers one initialization attempt: the first step that
\* fails ("none": all succeed), the variant it reports and its first report.
HwFailures == { [fail |-> s, which |-> "LeftJoyCon", report |-> ReportExact] :
                s \in InitStepSet }
HwSuccesses == { [fail |-> "none", which |-> w, report |-> r] :
                 w \in WhichControllers, r \in Reports }
HwOutcomes == HwFailures \cup HwSuccesses

\* ------------------------------------------------------------------ state
VARIABLES
    phase,                    \* what the schedule runs next
    trackers,                 \* Joycons.trackers (Arena: slot i is Index i)
    joycons_by_serial_number, \* Joycons.joycons_by_serial_number
    joycons_by_gamepad,       \* Joycons.joycons_by_gamepad
    next_gamepad_id,          \* Joycons.next_gamepad_id
    pinboards,                \* heap of Pinboard<JoyconReport> cells
    threads,                  \* the spawned polling threads, in spawn order
    events,                   \* GamepadEventRaw events sent this tick
    written,                  \* history: last write to each pinboard cell
    last_read,                \* history: what the last translator pass read
    open_attempts,            \* history: Tracker::new calls per serial number
    connect_log,              \* history: every Connected event ever sent
    id_log,                   \* history: every identifier ever allocated
    scan_log,                 \* history: what this tick's scan pass did
    frame                     \* the scan pass inside Tracker::new: its locals

registry == <<trackers, joycons_by_serial_number, joycons_by_gamepad, next_gamepad_id>>
history == <<written, last_read, open_attempts, connect_log, id_log, scan_log>>
vars == <<phase, trackers, joycons_by_serial_number, joycons_by_gamepad,
          next_gamepad_id, pinboards, threads, events, written, last_read,
          open_attempts, connect_log, id_log, scan_log, frame>>

\* ------------------------------------------------------------ collections
EmptyMap == [k \in {} |-> 0]
\* (mutant) a lookup that never finds the key
contains_key_never(map, key) == FALSE
contains_key(map, key) == key \in DOMAIN map
HashMapInsert(map, key, value) ==
    [k \in DOMAIN map \cup {key} |-> IF k = key THEN value ELSE map[k]]

Ok(x) == <<"Ok", x>>
Err == <<"Err">>
IsOk(r) == r[1] = "Ok"

\* (mutant) a plain load: the counter is never advanced
fetch_add_load_only(counter) == [old |-> counter, new |-> counter]

\* AtomicUsize::fetch_add(1): the old value, and the stored new value.
fetch_add(counter) ==
    [old |-> counter,
     new |-> IF counter[2] + 1 = 65536
             THEN <<counter[1] + 1, 0>>
             ELSE <<counter[1], counter[2] + 1>>]

\* Order on identifiers.
IdLess(a, b) == a[1] < b[1] \/ (a[1] = b[1] /\ a[2] < b[2])

\* --------------------------------------------------------------- pinboard
\* (mutant) a pinboard that starts empty
PinboardNew_empty(heap, report) == Append(heap, None)
\* Pinboard::new(report) behind a fresh Arc: a new cell holding the report.
PinboardNew(heap, report) == Append(heap, Some(report))
\* Pinboard::set, ::clear and ::read as lib.rs uses them: each call is one
\* step on the cell.  That a read overlapping a set sees one whole report
\* is the crate's contract; the crate is not part of this source.
PinboardSet(heap, addr, report) == [heap EXCEPT ![addr] = Some(report)]
\* (mutant) the error path leaves the last report in place
PinboardClear_keep(heap, addr) == heap
PinboardClear(heap, addr) == [heap EXCEPT ![addr] = None]
PinboardRead(heap, addr) == heap[addr]

\* ------------------------------------------------------- device discovery
\* (mutant) the filter looks at the vendor only
is_joycon_device_vendor_only(device_info) ==
    device_info.vendor_id = NINTENDO_VENDOR_ID

\* is_joycon_device: the vendor is Nintendo and the product is in HID_IDS.
is_joycon_device(device_info) ==
    /\ device_info.vendor_id = NINTENDO_VENDOR_ID
    /\ device_info.product_id \in HID_IDS

\* JoyconInfo::new: get_dev_info, the two try_into conversions, read_spi.
JoyconInfo_new(device_info, hw) ==
    IF hw.fail = "get_dev_info" THEN <<"Err", "Getting joycon device info">>
    ELSE IF hw.fail = "which_controller" THEN <<"Err", "Parsing joycon type">>
    ELSE IF hw.fail = "use_spi_colors"
    THEN <<"Err", "Parsing joycon UseSPIColors data">>
    ELSE IF hw.fail = "read_spi" THEN <<"Err", "Reading controller color">>
    ELSE Ok([product_string |-> device_info.product_string[1],
             serial_number |-> device_info.serial_number[1],
             which |-> hw.which])

\* (mutant) the first read's error is dropped and the report defaulted
Tracker_new_unchecked_first_read(heap, device_info, gamepad, hw) ==
    IF hw.fail \in {"open_device", "JoyconDevice::new", "load_calibration",
                    "get_dev_info", "which_controller", "use_spi_colors",
                    "read_spi"}
    THEN <<"Err", hw.fail>>
    ELSE Ok([joycon_device |-> device_info.serial_number[1],
             heap |-> PinboardNew(heap, hw.report),
             tracker |-> [info |-> [product_string |-> device_info.product_string[1],
                                    serial_number |-> device_info.serial_number[1],
                                    which |-> hw.which],
                          last_report |-> Len(heap) + 1,
                          gamepad |-> gamepad]])

\* Tracker::new: every step returns early with `?`; only the last statement
\* builds anything that outlives the call.  Ok carries the driver handle,
\* the Tracker and the heap with the Tracker's new pinboard cell.
Tracker_new(heap, device_info, gamepad, hw) ==
    IF hw.fail = "open_device" THEN <<"Err", "Opening joycon hid device">>
    ELSE IF hw.fail = "JoyconDevice::new" THEN <<"Err", "Initializing joycon">>
    ELSE IF hw.fail = "load_calibration"
    THEN <<"Err", "Loading calibration data">>
    ELSE LET info == JoyconInfo_new(device_info, hw) IN
         IF ~IsOk(info) THEN info
         ELSE IF hw.fail = "tick" THEN <<"Err", "Polling joycon first time">>
         ELSE Ok([joycon_device |-> device_info.serial_number[1],
                  heap |-> PinboardNew(heap, hw.report),
                  tracker |-> [info |-> info[2],
                               last_report |-> Len(heap) + 1,
                               gamepad |-> gamepad]])

Connected(gamepad, name) ==
    [type |-> "Connected", gamepad |-> gamepad, name |-> name]
AxisChanged(gamepad, axis, value) ==
    [type |-> "AxisChanged", gamepad |-> gamepad, axis |-> axis, value |-> value]

\* EventWriter::send
send(evs, event) == Append(evs, event)

\* (mutant) the thread is started twice
spawn_twice(ths, joycon_device, product_string, serial_number, last_report) ==
    LET th == [joycon_device |-> joycon_device,
               product_string |-> product_string,
               serial_number |-> serial_number,
               last_report |-> last_report,
               pc |-> "tick", report |-> None]
    IN  Append(Append(ths, th), th)

\* std::thread::spawn of the closure running joycon_polling_thread: the new
\* thread stands before its first joycon_device.tick().
spawn(ths, joycon_device, product_string, serial_number, last_report) ==
    Append(ths, [joycon_device |-> joycon_device,
                 product_string |-> product_string,
                 serial_number |-> serial_number,
                 last_report |-> last_report,
                 pc |-> "tick", report |-> None])

\* Arena::insert into an arena nothing is ever removed from: the next slot.
ArenaInsert(arena, value) == Append(arena, value)

\* (mutant) the arm announces nothing
OnConnected_silent(st, product_string, gamepad, new) ==
    LET tracker == new.tracker
        index == Len(st.trackers) + 1
    IN  <<[st EXCEPT
             !.threads = spawn(@, new.joycon_device, tracker.info.product_string,
                               tracker.info.serial_number, tracker.last_report),
             !.pinboards = new.heap,
             !.trackers = ArenaInsert(@, tracker),
             !.joycons_by_gamepad = HashMapInsert(@, gamepad, index)],
          Ok(index)>>

\* (mutant) the arm forgets the gamepad map
OnConnected_without_gamepad_entry(st, product_string, gamepad, new) ==
    LET tracker == new.tracker
        index == Len(st.trackers) + 1
    IN  <<[st EXCEPT
             !.events = send(@, Connected(gamepad, product_string)),
             !.threads = spawn(@, new.joycon_device, tracker.info.product_string,
                               tracker.info.serial_number, tracker.last_report),
             !.pinboards = new.heap,
             !.trackers = ArenaInsert(@, tracker)],
          Ok(index)>>

\* The Ok arm of the match on Tracker::new (lines 135-167): the Connected
\* event, the polling thread, the arena slot and the gamepad map entry.
\* Yields the state and the arm's value Ok(index).
OnConnected(st, product_string, gamepad, new) ==
    LET tracker == new.tracker
        index == Len(st.trackers) + 1
    IN  <<[st EXCEPT
             !.events = send(@, Connected(gamepad, product_string)),
             !.threads = spawn(@, new.joycon_device, tracker.info.product_string,
                               tracker.info.serial_number, tracker.last_report),
             !.pinboards = new.heap,
             !.trackers = ArenaInsert(@, tracker),
             !.joycons_by_gamepad = HashMapInsert(@, gamepad, index)],
          Ok(index)>>

\* The Err arm (lines 169-174): log the error, the arm's value is Err(()).
OnError(st, serial_num, context) == <<st, Err>>

\* The filter's `continue` (lines 113-115): the device is passed over.
NotJoycon(st, device_info) ==
    [st EXCEPT !.scan_log.rejected =
                   @ \cup {<<device_info.vendor_id, device_info.product_id>>}]

\* The serial number cannot be read (lines 117-120): log and `continue`.
BadSerialNumber(st) ==
    [st EXCEPT !.scan_log.unreadable = @ \cup {<<"serial_number">>}]

\* (mutant) the unnamed device is remembered as a failure
BadProductString_memoized(st, serial_num) ==
    [st EXCEPT !.scan_log.unreadable = @ \cup {<<"product_string", serial_num>>},
               !.joycons_by_serial_number = HashMapInsert(@, serial_num, Err)]

\* The product string cannot be read (lines 126-129): log and `continue`.
BadProductString(st, serial_num) ==
    [st EXCEPT !.scan_log.unreadable = @ \cup {<<"product_string", serial_num>>}]

\* One iteration of the loop over hidapi.device_list(), up to the call of
\* Tracker::new (lines 113-134).  An iteration that gets that far has taken
\* the identifier and stands inside the call, which talks to the device;
\* frame holds the locals the rest of the iteration needs.
VisitDevice(st, device_info) ==
    IF ~is_joycon_device(device_info) THEN NotJoycon(st, device_info)
    ELSE IF device_info.serial_number = None THEN BadSerialNumber(st)
    ELSE
      LET serial_num == device_info.serial_number[1] IN
      IF contains_key(st.joycons_by_serial_number, serial_num)
      THEN [st EXCEPT !.scan_log.skipped = @ \cup {serial_num}]
      ELSE IF device_info.product_string = None
      THEN BadProductString(st, serial_num)
      ELSE
        LET id == fetch_add(st.next_gamepad_id)
            gamepad == id.old
        IN  [st EXCEPT
               !.next_gamepad_id = id.new,
               !.frame = Some([device_info |-> device_info,
                               gamepad |-> gamepad,
                               device_list |-> <<>>]),
               \* history of the attempt
               !.id_log = Append(@, [gamepad |-> gamepad,
                                     serial_number |-> serial_num]),
               !.open_attempts[serial_num] = @ + 1,
               !.scan_log.opened = Append(@, serial_num)]

\* (mutant) the first failed initialization ends the loop
RECURSIVE VisitDevices_stop_on_error(_, _, _)
VisitDevices_stop_on_error(st, device_list, i) ==
    IF i > Len(device_list) \/ st.scan_log.errors # {} THEN st
    ELSE LET st1 == VisitDevice(st, device_list[i]) IN
         IF st1.frame # None
         THEN [st1 EXCEPT !.frame[1].device_list =
                              SubSeq(device_list, i + 1, Len(device_list))]
         ELSE VisitDevices_stop_on_error(st1, device_list, i + 1)

\* The loop over the listing from its i-th device on.  It runs to the end
\* of the listing or to the next call of Tracker::new, where frame keeps
\* the devices still to visit.
RECURSIVE VisitDevices(_, _, _)
VisitDevices(st, device_list, i) ==
    IF i > Len(device_list) THEN st
    ELSE LET st1 == VisitDevice(st, device_list[i]) IN
         IF st1.frame # None
         THEN [st1 EXCEPT !.frame[1].device_list =
                              SubSeq(device_list, i + 1, Len(device_list))]
         ELSE VisitDevices(st1, device_list, i + 1)

\* The rest of the iteration once Tracker::new has returned (lines
\* 134-179): the match on its result and the serial number map entry.  hw
\* is how the device answered.
MatchTrackerNew(st, hw) ==
    LET device_info == st.frame[1].device_info
        gamepad == st.frame[1].gamepad
        serial_num == device_info.serial_number[1]
        product_string == device_info.product_string[1]
        new == Tracker_new(st.pinboards, device_info, gamepad, hw)
        st1 == [st EXCEPT
                  !.frame = None,
                  \* history of the attempt
                  !.scan_log.errors =
                      IF hw.fail = "none" THEN @
                      ELSE @ \cup {<<serial_num, hw.fail>>},
                  !.written =
                      IF IsOk(new) THEN Append(@, Some(hw.report)) ELSE @]
        arm == IF IsOk(new)
               THEN OnConnected(st1, product_string, gamepad, new[2])
               ELSE OnError(st1, serial_num, new[2])
    IN  [arm[1] EXCEPT !.joycons_by_serial_number =
                           HashMapInsert(@, serial_num, arm[2])]

\* (mutant) the refresh error is not propagated before the loop
detect_connection_changes_inner_unchecked(refresh_devices, device_list, st) ==
    <<refresh_devices, VisitDevices(st, device_list, 1)>>

\* detect_connection_changes_inner: refresh_devices()? and then the loop.
detect_connection_changes_inner(refresh_devices, device_list, st) ==
    IF refresh_devices = "Err"
    THEN <<"Err", st>>
    ELSE <<"Ok", VisitDevices(st, device_list, 1)>>

\* ------------------------------------------------------------ scan pass
AllSerials == Serials \cup {"D"}

\* The resource Joycons and what a scan pass reaches through its other
\* parameters, with the history a pass keeps.
Joycons ==
    [trackers |-> trackers,
     joycons_by_serial_number |-> joycons_by_serial_number,
     joycons_by_gamepad |-> joycons_by_gamepad,
     next_gamepad_id |-> next_gamepad_id,
     pinboards |-> pinboards, threads |-> threads, events |-> events,
     written |-> written, open_attempts |-> open_attempts,
     id_log |-> id_log, scan_log |-> scan_log, frame |-> frame]

NoScan == [refresh |-> "none", opened |-> <<>>, skipped |-> {}, errors |-> {},
           rejected |-> {}, unreadable |-> {}, listed |-> {}]

SeqToSet(q) == {q[i] : i \in 1..Len(q)}

\* The serial numbers of the listing's controllers whose serial number and
\* product string can both be read.
Listed(device_list) ==
    {device_list[i].serial_number[1] :
        i \in {j \in DOMAIN device_list :
                 /\ is_joycon_device(device_list[j])
                 /\ device_list[j].serial_number # None
                 /\ device_list[j].product_string # None}}

\* The Connected events among the events numbered from+1 .. Len(evs).
RECURSIVE ConnectedSince(_, _)
ConnectedSince(evs, from) ==
    IF from >= Len(evs) THEN <<>>
    ELSE (IF evs[from + 1].type = "Connected" THEN <<evs[from + 1].gamepad>>
          ELSE <<>>) \o ConnectedSince(evs, from + 1)

\* What a stretch of the scan pass leaves behind: it stands inside
\* Tracker::new again, or the pass is over.
Store(st) ==
    /\ trackers' = st.trackers
    /\ joycons_by_serial_number' = st.joycons_by_serial_number
    /\ joycons_by_gamepad' = st.joycons_by_gamepad
    /\ next_gamepad_id' = st.next_gamepad_id
    /\ pinboards' = st.pinboards
    /\ threads' = st.threads
    /\ events' = st.events
    /\ written' = st.written
    /\ open_attempts' = st.open_attempts
    /\ id_log' = st.id_log
    /\ connect_log' = connect_log \o ConnectedSince(st.events, Len(events))
    /\ scan_log' = st.scan_log
    /\ frame' = st.frame
    /\ phase' = IF st.frame # None THEN "tracker_new" ELSE "translate"
    /\ UNCHANGED last_read

\* The system detect_connection_changes: a scan pass starts and runs until
\* its first call of Tracker::new, or to its end when it makes none.  An
\* Err of the inner function is logged and dropped.  The steps of the
\* pass between two device calls touch nothing a polling thread can see,
\* so they are taken together.
detect_connection_changes ==
    /\ phase = "scan"
    /\ \E refresh_devices \in {"Ok", "Err"}, device_list \in Listings :
         LET r == detect_connection_changes_inner(
                      refresh_devices, device_list,
                      [Joycons EXCEPT !.scan_log =
                          [NoScan EXCEPT !.refresh = refresh_devices,
                                         !.listed = IF refresh_devices = "Ok"
                                                    THEN Listed(device_list)
                                                    ELSE {}]])
         IN  Store([r[2] EXCEPT !.scan_log.refresh = r[1]])

\* Tracker::new returns (lines 236-265).  Each of its steps waits for the
\* device, and the polling threads of the devices connected so far, in
\* this pass too, run meanwhile; a device that never answers keeps the
\* pass here.  The pass then finishes the iteration and goes on to the
\* next call of Tracker::new or to its end.
Tracker_new_returns ==
    /\ phase = "tracker_new"
    /\ \E hw \in HwOutcomes :
         Store(VisitDevices(MatchTrackerNew(Joycons, hw),
                            frame[1].device_list, 1))

\* ------------------------------------------------------------- get_info
\* (mutant) the arena slot is computed from the identifier's offset
get_info_by_offset(gamepad) ==
    LET index == gamepad[2] + 1 IN
    IF index \notin DOMAIN trackers THEN None
    ELSE Some(trackers[index].info)

\* Joycons::get_info: the gamepad map, then the arena; None if either
\* lookup finds nothing.
get_info(gamepad) ==
    IF ~contains_key(joycons_by_gamepad, gamepad) THEN None
    ELSE LET index == joycons_by_gamepad[gamepad] IN
         IF index \notin DOMAIN trackers THEN None
         ELSE Some(trackers[index].info)

\* ------------------------------------------------------- translator pass
\* `x as f32` for an f64 x: round to 24 significant bits, ties to even.
RECURSIVE F32Spacing(_)
F32Spacing(a) == IF a < 16777216 THEN 1 ELSE 2 * F32Spacing(a \div 2)
RoundMagnitude(a) ==
    LET q == F32Spacing(a)
        lo == (a \div q) * q
        rem == a - lo
    IN  IF 2 * rem < q THEN lo
        ELSE IF 2 * rem > q THEN lo + q
        ELSE IF (lo \div q) % 2 = 0 THEN lo ELSE lo + q
AsF32(v) == IF v < 0 THEN -RoundMagnitude(-v) ELSE RoundMagnitude(v)

send_axis_event(evs, gamepad, x_axis, x, y_axis, y) ==
    send(send(evs, AxisChanged(gamepad, x_axis, AsF32(x))),
         AxisChanged(gamepad, y_axis, AsF32(y)))

\* (mutants) arms that forget the rotation, or mix up the sticks
LeftJoyConArm_unrotated(evs, wrapper, report) ==
    send_axis_event(evs, wrapper.gamepad,
                    "LeftStickX", report.left_stick.x,
                    "LeftStickY", report.left_stick.y)
RightJoyConArm_like_left(evs, wrapper, report) ==
    send_axis_event(evs, wrapper.gamepad,
                    "LeftStickX", -report.right_stick.y,
                    "LeftStickY", report.right_stick.x)
ProControllerArm_left_only(evs, wrapper, report) ==
    send_axis_event(evs, wrapper.gamepad,
                    "LeftStickX", report.left_stick.x,
                    "LeftStickY", report.left_stick.y)

\* The three arms of the match on wrapper.info.which.
LeftJoyConArm(evs, wrapper, report) ==
    send_axis_event(evs, wrapper.gamepad,
                    "LeftStickX", -report.left_stick.y,
                    "LeftStickY", report.left_stick.x)
RightJoyConArm(evs, wrapper, report) ==
    send_axis_event(evs, wrapper.gamepad,
                    "LeftStickX", report.right_stick.y,
                    "LeftStickY", -report.right_stick.x)
ProControllerArm(evs, wrapper, report) ==
    send_axis_event(
        send_axis_event(evs, wrapper.gamepad,
                        "LeftStickX", report.left_stick.x,
                        "LeftStickY", report.left_stick.y),
        wrapper.gamepad,
        "RightStickX", report.right_stick.x,
        "RightStickY", report.right_stick.y)

\* (mutant) an empty pinboard is reported as a disconnection
UpdateTracker_disconnecting(evs, wrapper, heap) ==
    LET read == PinboardRead(heap, wrapper.last_report) IN
    IF read = None
    THEN send(evs, [type |-> "Disconnected", gamepad |-> wrapper.gamepad])
    ELSE CASE wrapper.info.which = "LeftJoyCon" ->
                  LeftJoyConArm(evs, wrapper, read[1])
           [] wrapper.info.which = "RightJoyCon" ->
                  RightJoyConArm(evs, wrapper, read[1])
           [] wrapper.info.which = "ProController" ->
                  ProControllerArm(evs, wrapper, read[1])

\* The body of the loop over joycons.trackers for one tracker.
UpdateTracker(evs, wrapper, heap) ==
    LET read == PinboardRead(heap, wrapper.last_report) IN
    IF read = None THEN evs
    ELSE CASE wrapper.info.which = "LeftJoyCon" ->
                  LeftJoyConArm(evs, wrapper, read[1])
           [] wrapper.info.which = "RightJoyCon" ->
                  RightJoyConArm(evs, wrapper, read[1])
           [] wrapper.info.which = "ProController" ->
                  ProControllerArm(evs, wrapper, read[1])

RECURSIVE UpdateTrackers(_, _, _, _)
UpdateTrackers(evs, arena, heap, i) ==
    IF i > Len(arena) THEN evs
    ELSE UpdateTrackers(UpdateTracker(evs, arena[i], heap), arena, heap, i + 1)

\* (mutant) reading a pinboard takes the report out of it
update_joycon_data_taking ==
    /\ phase = "translate"
    /\ events' = UpdateTrackers(events, trackers, pinboards, 1)
    /\ last_read' = [i \in 1..Len(trackers) |->
                        PinboardRead(pinboards, trackers[i].last_report)]
    /\ pinboards' = [a \in DOMAIN pinboards |->
                        IF \E i \in DOMAIN trackers : trackers[i].last_report = a
                        THEN None ELSE pinboards[a]]
    /\ scan_log' = NoScan
    /\ phase' = "input"
    /\ UNCHANGED <<registry, frame, threads, written, open_attempts,
                   connect_log, id_log>>

\* The system update_joycon_data: one translator pass.
update_joycon_data ==
    /\ phase = "translate"
    /\ events' = UpdateTrackers(events, trackers, pinboards, 1)
    /\ last_read' = [i \in 1..Len(trackers) |->
                        PinboardRead(pinboards, trackers[i].last_report)]
    /\ scan_log' = NoScan
    /\ phase' = "input"
    /\ UNCHANGED <<registry, frame, pinboards, threads, written, open_attempts,
                   connect_log, id_log>>

\* Both systems are scheduled before InputSystem (lines 57 and 63): the
\* engine's input systems then consume the tick's raw events, and the next
\* tick starts with the scan pass.
InputSystem ==
    /\ phase = "input"
    /\ events' = <<>>
    /\ last_read' = <<>>
    /\ phase' = "scan"
    /\ UNCHANGED <<registry, frame, pinboards, threads, written, open_attempts,
                   connect_log, id_log, scan_log>>

\* --------------------------------------------------------- polling thread
\* joycon_device.tick() returns: a report, or a driver error.
PollTick(t) ==
    /\ t \in DOMAIN threads
    /\ threads[t].pc = "tick"
    /\ \/ \E report \in Reports :
            threads' = [threads EXCEPT ![t].pc = "set",
                                       ![t].report = Some(report)]
       \/ threads' = [threads EXCEPT ![t].pc = "clear"]
    /\ UNCHANGED <<phase, registry, frame, pinboards, events, history>>

\* last_report.set(report), and back to the top of the loop.
PollSet(t) ==
    /\ t \in DOMAIN threads
    /\ threads[t].pc = "set"
    /\ pinboards' = PinboardSet(pinboards, threads[t].last_report,
                                threads[t].report[1])
    /\ written' = [written EXCEPT ![threads[t].last_report] = threads[t].report]
    /\ threads' = [threads EXCEPT ![t].pc = "tick", ![t].report = None]
    /\ UNCHANGED <<phase, registry, frame, events, last_read, open_attempts,
                   connect_log, id_log, scan_log>>

\* last_report.clear(); break: the thread ends.
PollClear(t) ==
    /\ t \in DOMAIN threads
    /\ threads[t].pc = "clear"
    /\ pinboards' = PinboardClear(pinboards, threads[t].last_report)
    /\ written' = [written EXCEPT ![threads[t].last_report] = None]
    /\ threads' = [threads EXCEPT ![t].pc = "done"]
    /\ UNCHANGED <<phase, registry, frame, events, last_read, open_attempts,
                   connect_log, id_log, scan_log>>

joycon_polling_thread(t) == PollTick(t) \/ PollSet(t) \/ PollClear(t)

\* ------------------------------------------------------------------ plugin
\* JoyconsPlugin::build: without a HidApi the plugin adds no system.
build ==
    /\ phase = "build"
    /\ \E hidapi \in {"Ok", "Err"} :
          phase' = IF hidapi = "Ok" THEN "scan" ELSE "off"
    /\ UNCHANGED <<registry, frame, pinboards, threads, events, history>>

\* Joycons::new()
Init ==
    /\ phase = "build"
    /\ trackers = <<>>
    /\ joycons_by_serial_number = EmptyMap
    /\ joycons_by_gamepad = EmptyMap
    /\ next_gamepad_id = STARTING_GAMEPAD_ID
    /\ pinboards = <<>>
    /\ threads = <<>>
    /\ events = <<>>
    /\ written = <<>>
    /\ last_read = <<>>
    /\ open_attempts = [s \in AllSerials |-> 0]
    /\ connect_log = <<>>
    /\ id_log = <<>>
    /\ scan_log = NoScan
    /\ frame = None

MaxThreads == Cardinality(Serials)

Next ==
    \/ build
    \/ detect_connection_changes
    \/ Tracker_new_returns
    \/ update_joycon_data
    \/ InputSystem
    \/ \E t \in 1..MaxThreads : PollTick(t)
    \/ \E t \in 1..MaxThreads : PollSet(t)
    \/ \E t \in 1..MaxThreads : PollClear(t)

Spec == Init /\ [][Next]_vars

\* Every polling thread is an OS thread of its own: once tick() has
\* returned, the thread is eventually scheduled and stores the report or
\* clears the pinboard.  tick() itself is a blocking read and may never
\* return; nothing is assumed about it, about Tracker::new or about the
\* ticks of the schedule.
LiveSpec ==
    /\ Spec
    /\ \A t \in 1..MaxThreads : WF_vars(PollSet(t)) /\ WF_vars(PollClear(t))

\* ================================================================ claims
ThreadsOf(s) == {t \in DOMAIN threads : threads[t].serial_number = s}
TrackersOf(s) == {i \in DOMAIN trackers : trackers[i].info.serial_number = s}
\* The identifiers allocated while initializing serial number s.
IdsOf(s) == {id_log[k].gamepad : k \in {n \in DOMAIN id_log :
                                          id_log[n].serial_number = s}}
\* The Connected events ever sent for serial number s.
ConnectsOf(s) == {i \in DOMAIN connect_log : connect_log[i] \in IdsOf(s)}
HasEntry(s) == s \in DOMAIN joycons_by_serial_number
IsLive(s) == HasEntry(s) /\ IsOk(joycons_by_serial_number[s])
IsFailed(s) == HasEntry(s) /\ joycons_by_serial_number[s] = Err
\* The serial number the scan pass is inside Tracker::new for.
Initializing ==
    IF frame = None THEN {} ELSE {frame[1].device_info.serial_number[1]}

\* C1: a serial number with a registry entry, success or permanent failure,
\* is never initialized again.  Tracker::new is called for a serial number
\* only to create its entry, so the number of calls ever made for it is 1
\* once it has an entry, 1 while the one call is running, and 0 before,
\* after any sequence of scan passes over any listings; and no call runs
\* for a serial number that has an entry.
C1_NeverReinitialized ==
    \A s \in AllSerials :
       /\ open_attempts[s] = IF HasEntry(s) \/ s \in Initializing THEN 1 ELSE 0
       /\ ~(HasEntry(s) /\ s \in Initializing)

\* A scan pass has just met, and skipped, a serial number with a success
\* entry and one with a failure entry.
C1_Witness ==
    /\ phase = "translate"
    /\ \E s \in scan_log.skipped, f \in scan_log.skipped :
          /\ IsLive(s) /\ IsFailed(f)
          /\ open_attempts[s] = 1 /\ open_attempts[f] = 1
          /\ scan_log.opened = <<>>

\* C2: exactly one polling thread and one Connected event per successfully
\* initialized device, and none for any other serial number, however many
\* scan passes list it again.
C2_OneThreadOneConnect ==
    \A s \in AllSerials :
        IF IsLive(s)
        THEN /\ Cardinality(ThreadsOf(s)) = 1
             /\ Cardinality(ConnectsOf(s)) = 1
             /\ \A t \in ThreadsOf(s) :
                   threads[t].last_report =
                       trackers[joycons_by_serial_number[s][2]].last_report
        ELSE ThreadsOf(s) = {} /\ ConnectsOf(s) = {}

\* A later scan pass lists a connected device again: no new Connected
\* event, still one thread.
C2_Witness ==
    /\ phase = "translate"
    /\ \E s \in scan_log.skipped :
          /\ IsLive(s)
          /\ Cardinality(ThreadsOf(s)) = 1
          /\ Cardinality(ConnectsOf(s)) = 1
    /\ events = <<>>

\* C3: a failure of any step of the initialization leaves nothing behind
\* but the PermanentFailure entry and the consumed identifier: the device
\* whose attempt failed in this pass has an Err entry, and a serial number
\* with an Err entry has no Tracker, no gamepad map entry, no thread, no
\* Connected event and exactly one initialization attempt; trackers,
\* pinboards, threads, gamepad map entries and Connected events are as many
\* as the success entries.
C3_FailureStoresNothing ==
    /\ \A e \in scan_log.errors : IsFailed(e[1])
    /\ \A s \in AllSerials :
          IsFailed(s) =>
             /\ TrackersOf(s) = {}
             /\ ThreadsOf(s) = {}
             /\ ConnectsOf(s) = {}
             /\ \A g \in IdsOf(s) : g \notin DOMAIN joycons_by_gamepad
             /\ open_attempts[s] = 1
    /\ LET live == Cardinality({s \in AllSerials : IsLive(s)}) IN
          /\ Len(trackers) = live
          /\ Len(pinboards) = live
          /\ Len(threads) = live
          /\ Cardinality(DOMAIN joycons_by_gamepad) = live
          /\ Len(connect_log) = live

\* The last step (the first read) failed for a device, and the same pass,
\* meeting the serial number again, did not open it again.
C3_Witness ==
    /\ phase = "translate"
    /\ \E s \in AllSerials :
          /\ <<s, "tick">> \in scan_log.errors
          /\ s \in scan_log.skipped
          /\ IsFailed(s)
          /\ scan_log.opened = <<s>>
          /\ trackers = <<>> /\ events = <<>>
          /\ next_gamepad_id # STARTING_GAMEPAD_ID

\* The tracker that shares thread t's pinboard.
TrackersOfThread(t) ==
    {i \in DOMAIN trackers : trackers[i].last_report = threads[t].last_report}
\* The AxisChanged events of the sequence evs that carry gamepad g.
RECURSIVE AxisEventsOf(_, _)
AxisEventsOf(evs, g) ==
    IF evs = <<>> THEN <<>>
    ELSE (IF Head(evs).type = "AxisChanged" /\ Head(evs).gamepad = g
          THEN <<[axis |-> Head(evs).axis, value |-> Head(evs).value]>>
          ELSE <<>>) \o AxisEventsOf(Tail(evs), g)
TranslatorStep == phase = "translate" /\ phase' = "input"
Axis(a, v) == [axis |-> a, value |-> v]

\* C4: a polling thread whose read failed goes on to clear its pinboard
\* and end; once it has ended the pinboard is empty and stays empty, and
\* every translator pass from then on sends no axis event for that device.
C4_FailedThreadSilencesDevice ==
    /\ \A t \in 1..MaxThreads :
          (t \in DOMAIN threads /\ threads[t].pc = "clear")
             ~> (/\ t \in DOMAIN threads
                 /\ threads[t].pc = "done"
                 /\ pinboards[threads[t].last_report] = None)
    /\ [](\A t \in DOMAIN threads :
             threads[t].pc = "done" => pinboards[threads[t].last_report] = None)
    /\ [][\A t \in DOMAIN threads :
             threads[t].pc = "done" =>
                /\ threads'[t].pc = "done"
                /\ pinboards'[threads[t].last_report] = None
                /\ TranslatorStep =>
                      \A i \in TrackersOfThread(t) :
                          AxisEventsOf(events', trackers[i].gamepad) = <<>>]_vars

\* A thread has ended, and the translator pass that ran afterwards read
\* its pinboard empty and sent nothing for it, while it did send events
\* for the other device.
C4_Witness ==
    /\ phase = "input"
    /\ \E t \in DOMAIN threads :
          /\ threads[t].pc = "done"
          /\ pinboards[threads[t].last_report] = None
          /\ \E i \in TrackersOfThread(t) :
                /\ last_read[i] = None
                /\ AxisEventsOf(events, trackers[i].gamepad) = <<>>
                /\ trackers[i].gamepad \in SeqToSet(connect_log)
    /\ events # <<>>

\* What the last translator pass sent for tracker i.
SentFor(i) == AxisEventsOf(events, trackers[i].gamepad)
\* Tracker i is of variant w and the last translator pass read a report
\* from its pinboard.
ReadAs(i, w) ==
    /\ phase = "input"
    /\ i \in DOMAIN last_read
    /\ trackers[i].info.which = w
    /\ last_read[i] # None

\* C6 as stated: a LeftJoyCon report with stick (x, y) gives exactly the
\* two events LeftStickX = -y and LeftStickY = x, the f64 values themselves.
C6_LeftExactValues ==
    \A i \in DOMAIN trackers :
        ReadAs(i, "LeftJoyCon") =>
            SentFor(i) = <<Axis("LeftStickX", -last_read[i][1].left_stick.y),
                           Axis("LeftStickY", last_read[i][1].left_stick.x)>>

\* C6 as amended: exactly the two events LeftStickX = f32(-y) and
\* LeftStickY = f32(x), each the coordinate rounded to single precision.
C6_LeftRotatedRounded ==
    \A i \in DOMAIN trackers :
        ReadAs(i, "LeftJoyCon") =>
            SentFor(i) = <<Axis("LeftStickX", AsF32(-last_read[i][1].left_stick.y)),
                           Axis("LeftStickY", AsF32(last_read[i][1].left_stick.x))>>

\* A LeftJoyCon pass over the report whose coordinates are not f32 numbers:
\* 0.1 went out as 107374184 * 2^-30 and -(1 + 2^-30) as -1.
C6_Witness ==
    \E i \in DOMAIN trackers :
        /\ ReadAs(i, "LeftJoyCon")
        /\ last_read[i] = Some(ReportFine)
        /\ SentFor(i) = <<Axis("LeftStickX", -1073741824),
                          Axis("LeftStickY", 107374184)>>

\* C7 as stated: a RightJoyCon report with stick (x, y) gives exactly the
\* two events LeftStickX = y and LeftStickY = -x, the f64 values themselves.
C7_RightExactValues ==
    \A i \in DOMAIN trackers :
        ReadAs(i, "RightJoyCon") =>
            SentFor(i) = <<Axis("LeftStickX", last_read[i][1].right_stick.y),
                           Axis("LeftStickY", -last_read[i][1].right_stick.x)>>

\* C7 as amended: exactly the two events LeftStickX = f32(y) and
\* LeftStickY = f32(-x), (x, y) being the report's right stick.
C7_RightRotatedRounded ==
    \A i \in DOMAIN trackers :
        ReadAs(i, "RightJoyCon") =>
            SentFor(i) = <<Axis("LeftStickX", AsF32(last_read[i][1].right_stick.y)),
                           Axis("LeftStickY", AsF32(-last_read[i][1].right_stick.x))>>

\* A RightJoyCon pass over the report whose coordinates are not f32
\* numbers: y = 1 + 192 * 2^-30 is a tie and went to the even neighbour,
\* x = -(0.5 + 33 * 2^-30) went away from zero.
C7_Witness ==
    \E i \in DOMAIN trackers :
        /\ ReadAs(i, "RightJoyCon")
        /\ last_read[i] = Some(ReportFine)
        /\ SentFor(i) = <<Axis("LeftStickX", 1073742080),
                          Axis("LeftStickY", 536870976)>>

\* C8 as stated: a ProController report gives exactly four events, the
\* f64 coordinates themselves: LeftStickX = lx, LeftStickY = ly,
\* RightStickX = rx, RightStickY = ry.
C8_ProExactValues ==
    \A i \in DOMAIN trackers :
        ReadAs(i, "ProController") =>
            SentFor(i) = <<Axis("LeftStickX", last_read[i][1].left_stick.x),
                           Axis("LeftStickY", last_read[i][1].left_stick.y),
                           Axis("RightStickX", last_read[i][1].right_stick.x),
                           Axis("RightStickY", last_read[i][1].right_stick.y)>>

\* C8 as amended: exactly four events, unrotated, each coordinate rounded
\* to single precision.
C8_ProUnrotatedRounded ==
    \A i \in DOMAIN trackers :
        ReadAs(i, "ProController") =>
            SentFor(i) = <<Axis("LeftStickX", AsF32(last_read[i][1].left_stick.x)),
                           Axis("LeftStickY", AsF32(last_read[i][1].left_stick.y)),
                           Axis("RightStickX", AsF32(last_read[i][1].right_stick.x)),
                           Axis("RightStickY", AsF32(last_read[i][1].right_stick.y))>>

\* A ProController pass over the report whose coordinates are not f32
\* numbers.
C8_Witness ==
    \E i \in DOMAIN trackers :
        /\ ReadAs(i, "ProController")
        /\ last_read[i] = Some(ReportFine)
        /\ SentFor(i) = <<Axis("LeftStickX", 107374184),
                          Axis("LeftStickY", 1073741824),
                          Axis("RightStickX", -536870976),
                          Axis("RightStickY", 1073742080)>>

\* C9: identifiers come from a counter that starts at 0x8000_0000 and only
\* goes up: every identifier allocated is at least the offset and below the
\* counter, identifiers increase strictly in allocation order and in the
\* order of the Connected events, every Tracker carries an identifier that
\* was allocated for its own serial number, and the identifier of a failed
\* initialization belongs to no Tracker and no gamepad map entry.
C9_IdentifiersNeverReused ==
    /\ \A k \in DOMAIN id_log :
          /\ ~IdLess(id_log[k].gamepad, STARTING_GAMEPAD_ID)
          /\ IdLess(id_log[k].gamepad, next_gamepad_id)
    /\ \A k \in DOMAIN id_log, n \in DOMAIN id_log :
          k < n => IdLess(id_log[k].gamepad, id_log[n].gamepad)
    /\ \A k \in DOMAIN connect_log, n \in DOMAIN connect_log :
          k < n => IdLess(connect_log[k], connect_log[n])
    /\ \A i \in DOMAIN trackers :
          trackers[i].gamepad \in IdsOf(trackers[i].info.serial_number)
    /\ \A s \in AllSerials :
          IsFailed(s) =>
             \A g \in IdsOf(s) :
                 /\ g \notin DOMAIN joycons_by_gamepad
                 /\ \A i \in DOMAIN trackers : trackers[i].gamepad # g

\* The first identifier went to an initialization that failed, the second
\* one to the device connected after it.
C9_Witness ==
    /\ Len(id_log) = 2
    /\ id_log[1].gamepad = STARTING_GAMEPAD_ID
    /\ IsFailed(id_log[1].serial_number)
    /\ IsLive(id_log[2].serial_number)
    /\ trackers[1].gamepad = <<32768, 1>>
    /\ connect_log = <<(<<32768, 1>>)>>
    /\ next_gamepad_id = <<32768, 2>>

\* C10: a scan pass whose refresh fails changes nothing: the registry, the
\* counter, the pinboards and the threads are as before, nothing is opened,
\* no event is sent, and the translator pass is what runs next; the scan
\* pass of the next tick starts with a refresh again.
C10_RefreshFailureChangesNothing ==
    [][(phase = "scan" /\ scan_log'.refresh = "Err") =>
          /\ UNCHANGED <<registry, pinboards, threads, events>>
          /\ UNCHANGED <<open_attempts, id_log, connect_log, written>>
          /\ scan_log'.opened = <<>>
          /\ scan_log'.skipped = {}
          /\ phase' = "translate"]_vars

\* A refresh failed in a tick in which a device was already connected:
\* the translator pass is due, and nothing has been sent.
C10_Witness ==
    /\ phase = "translate"
    /\ scan_log.refresh = "Err"
    /\ trackers # <<>>
    /\ events = <<>>
    /\ ENABLED update_joycon_data

\* q is p, possibly with more elements after it.
IsPrefix(p, q) == Len(p) <= Len(q) /\ \A i \in DOMAIN p : q[i] = p[i]
EventTypes(evs) == {evs[i].type : i \in DOMAIN evs}

\* C11: nothing is ever removed and no disconnection is ever reported:
\* in every step every serial-number entry and every gamepad map entry
\* stays as it is, every Tracker stays in its arena slot, and the events
\* of a tick are Connected and AxisChanged events only.
C11_NothingRemoved ==
    /\ [](EventTypes(events) \subseteq {"Connected", "AxisChanged"})
    /\ [][/\ \A s \in DOMAIN joycons_by_serial_number :
                /\ s \in DOMAIN joycons_by_serial_number'
                /\ joycons_by_serial_number'[s] = joycons_by_serial_number[s]
          /\ \A g \in DOMAIN joycons_by_gamepad :
                /\ g \in DOMAIN joycons_by_gamepad'
                /\ joycons_by_gamepad'[g] = joycons_by_gamepad[g]
          /\ IsPrefix(trackers, trackers')]_vars

\* A scan pass whose listing held none of the known devices has run, one
\* device's thread has ended and its pinboard is empty, and the device is
\* still in the arena and in both maps.
C11_Witness ==
    /\ phase = "translate"
    /\ scan_log.refresh = "Ok"
    /\ scan_log.skipped = {} /\ scan_log.opened = <<>>
    /\ \E t \in DOMAIN threads :
          /\ threads[t].pc = "done"
          /\ pinboards[threads[t].last_report] = None
          /\ IsLive(threads[t].serial_number)
          /\ \E i \in TrackersOfThread(t) :
                /\ joycons_by_serial_number[threads[t].serial_number] = Ok(i)
                /\ joycons_by_gamepad[trackers[i].gamepad] = i

\* The serial number identifier g was allocated for.
SerialOfId(g) ==
    id_log[CHOOSE k \in DOMAIN id_log : id_log[k].gamepad = g].serial_number
AllocatedIds == {id_log[k].gamepad : k \in DOMAIN id_log}

\* C12: get_info of an identifier that a Connected event carried is the
\* JoyconInfo of the Tracker holding that identifier, which is the info of
\* the device the identifier was allocated for, in every state from the
\* scan pass on, whatever its polling thread does; get_info of any other
\* identifier (one consumed by a failed initialization, the next one the
\* counter will give out, the offset's predecessors) is None.
C12_GetInfo ==
    /\ \A g \in SeqToSet(connect_log) :
          /\ get_info(g) # None
          /\ get_info(g)[1].serial_number = SerialOfId(g)
          /\ \E i \in DOMAIN trackers :
                trackers[i].gamepad = g /\ get_info(g)[1] = trackers[i].info
    /\ \A g \in (AllocatedIds \ SeqToSet(connect_log))
                  \cup {next_gamepad_id, <<0, 0>>, <<32767, 65535>>} :
          get_info(g) = None

\* The first identifier was consumed by a failed initialization and has no
\* info; the second belongs to a connected device whose thread has ended,
\* and still has its info.
C12_Witness ==
    /\ Len(id_log) = 2
    /\ IsFailed(id_log[1].serial_number)
    /\ get_info(id_log[1].gamepad) = None
    /\ connect_log = <<id_log[2].gamepad>>
    /\ get_info(id_log[2].gamepad) = Some(trackers[1].info)
    /\ trackers[1].info.serial_number = id_log[2].serial_number
    /\ threads[1].pc = "done"

\* C13: the two maps and the arena agree.  Every gamepad map entry leads
\* to a stored Tracker that carries that identifier and whose serial number
\* has the Ok entry for the same slot; every Ok entry leads to a stored
\* Tracker with that serial number that the gamepad map has under the
\* Tracker's identifier; every stored Tracker is reached from both maps,
\* by one key each; a serial number with an Err entry has no Tracker and
\* no gamepad map entry.
C13_RegistryBijection ==
    /\ \A g \in DOMAIN joycons_by_gamepad :
          LET i == joycons_by_gamepad[g] IN
          /\ i \in DOMAIN trackers
          /\ trackers[i].gamepad = g
          /\ HasEntry(trackers[i].info.serial_number)
          /\ joycons_by_serial_number[trackers[i].info.serial_number] = Ok(i)
    /\ \A s \in DOMAIN joycons_by_serial_number :
          IsOk(joycons_by_serial_number[s]) =>
             LET i == joycons_by_serial_number[s][2] IN
             /\ i \in DOMAIN trackers
             /\ trackers[i].info.serial_number = s
             /\ trackers[i].gamepad \in DOMAIN joycons_by_gamepad
             /\ joycons_by_gamepad[trackers[i].gamepad] = i
    /\ \A i \in DOMAIN trackers :
          /\ Cardinality({g \in DOMAIN joycons_by_gamepad :
                             joycons_by_gamepad[g] = i}) = 1
          /\ Cardinality({s \in DOMAIN joycons_by_serial_number :
                             joycons_by_serial_number[s] = Ok(i)}) = 1
    /\ \A s \in DOMAIN joycons_by_serial_number :
          joycons_by_serial_number[s] = Err =>
             /\ TrackersOf(s) = {}
             /\ \A g \in DOMAIN joycons_by_gamepad :
                   trackers[joycons_by_gamepad[g]].info.serial_number # s

\* Both passes of a tick have run on a registry with one connected device
\* and one permanent failure.
C13_Witness ==
    /\ phase = "input"
    /\ \E s \in Serials, f \in Serials :
          /\ IsLive(s) /\ IsFailed(f)
          /\ Len(trackers) = 1
          /\ DOMAIN joycons_by_gamepad = {trackers[1].gamepad}
          /\ trackers[1].gamepad = <<32768, 1>>

\* The threads that share tracker i's pinboard.
ThreadsOfTracker(i) ==
    {t \in DOMAIN threads : threads[t].last_report = trackers[i].last_report}

\* C14: the pinboard of a Tracker is empty exactly when its polling thread
\* has gone through its error path: it holds a report from the moment the
\* Tracker exists, while the thread is reading or storing, and also after
\* a failed read until the thread clears it; and the step that empties a
\* pinboard is the clear of the thread that owns it.
C14_EmptyMeansThreadFailed ==
    /\ [](\A i \in DOMAIN trackers :
             /\ ThreadsOfTracker(i) # {}
             /\ \A t \in ThreadsOfTracker(i) :
                   pinboards[trackers[i].last_report] = None
                      <=> threads[t].pc = "done")
    /\ [][\A a \in DOMAIN pinboards :
             (pinboards[a] # None /\ pinboards'[a] = None) =>
                \E t \in DOMAIN threads :
                    /\ threads[t].last_report = a
                    /\ threads[t].pc = "clear"
                    /\ threads'[t].pc = "done"]_vars

\* One device's thread has failed and cleared its pinboard; the other
\* device's thread has failed too but has not cleared yet, and its pinboard
\* still holds a report.
C14_Witness ==
    \E t \in DOMAIN threads, u \in DOMAIN threads :
        /\ threads[t].pc = "done"
        /\ pinboards[threads[t].last_report] = None
        /\ threads[u].pc = "clear"
        /\ pinboards[threads[u].last_report] # None
        /\ TrackersOfThread(t) # {} /\ TrackersOfThread(u) # {}

\* C15: every AxisChanged event carries an identifier whose Connected event
\* was sent before it: all Connected events of a tick stand before all its
\* AxisChanged events, because the scan pass of the tick is over when the
\* translator pass starts, and an identifier without a Connected event in
\* this tick had one in an earlier tick.
C15_ConnectBeforeAxis ==
    /\ \A k \in DOMAIN events :
          events[k].type = "AxisChanged" =>
             /\ events[k].gamepad \in SeqToSet(connect_log)
             /\ \A j \in DOMAIN events :
                   events[j].type = "Connected" => j < k
    /\ phase \in {"scan", "translate"} =>
          \A k \in DOMAIN events : events[k].type = "Connected"
    /\ \A k \in DOMAIN events :
          events[k].type = "Connected" =>
             events[k].gamepad \in SeqToSet(connect_log)

\* A tick connected one device and sent axis events for it and for a device
\* connected in an earlier tick.
C15_Witness ==
    /\ phase = "input"
    /\ Len(events) >= 5
    /\ events[1].type = "Connected"
    /\ events[2].type = "AxisChanged"
    /\ \E k \in DOMAIN events :
          /\ events[k].type = "AxisChanged"
          /\ events[k].gamepad = events[1].gamepad
    /\ \E k \in DOMAIN events :
          /\ events[k].type = "AxisChanged"
          /\ events[k].gamepad # events[1].gamepad
          /\ events[k].gamepad \in SeqToSet(connect_log)

\* C16 as stated: the foreground never waits on a device's blocking read,
\* whether or not the devices deliver reports: no scan pass stands inside
\* a call that reads from a device.
C16_ForegroundNeverWaits == phase # "tracker_new"

\* C16 as amended: the foreground waits on a device only in a scan pass,
\* inside Tracker::new for a listed controller whose serial number has no
\* registry entry yet: the identifier for it was the last one taken, it
\* has no entry, no thread and no Connected event while the pass waits;
\* and the translator pass can always run to its end.
C16_WaitsOnlyInInitialization ==
    /\ [](/\ phase = "tracker_new" <=> frame # None
          /\ \A s \in Initializing :
               /\ s \in scan_log.listed
               /\ ~HasEntry(s)
               /\ open_attempts[s] = 1
               /\ id_log # <<>>
               /\ id_log[Len(id_log)] = [gamepad |-> frame[1].gamepad,
                                         serial_number |-> s]
               /\ ThreadsOf(s) = {} /\ TrackersOf(s) = {}
               /\ frame[1].gamepad \notin SeqToSet(connect_log)
          /\ phase = "translate" => ENABLED update_joycon_data)
    /\ [][phase' = "tracker_new" => phase \in {"scan", "tracker_new"}]_vars

\* The scan pass waits inside Tracker::new for a device after it has
\* connected another device in the same pass, whose polling thread has
\* meanwhile read a report, stored it, and then failed and cleared it.
C16_Witness ==
    /\ phase = "tracker_new"
    /\ \E s \in Serials, a \in Serials :
          /\ Initializing = {s}
          /\ scan_log.opened = <<a, s>>
          /\ IsLive(a)
          /\ next_gamepad_id = <<32768, 2>>
          /\ \E t \in ThreadsOf(a) :
                /\ threads[t].pc = "done"
                /\ pinboards[threads[t].last_report] = None

\* The product string of serial number s when it can be read.
NameOf(s) ==
    (CHOOSE d \in DeviceInfos :
        d.serial_number = Some(s) /\ d.product_string # None).product_string[1]

\* The serial numbers whose product string a pass could not read and that
\* the pass did not initialize from another descriptor.
PassedOver == {s \in Serials : /\ <<"product_string", s>> \in scan_log.unreadable
                               /\ s \notin SeqToSet(scan_log.opened)}

\* C17: a new controller descriptor whose product string (or serial number)
\* cannot be read is passed over for this pass only.  After the pass its
\* serial number has no registry entry of either kind, no initialization
\* was attempted for it, no identifier was taken and no Connected event
\* sent for it; a pass that initializes nothing, whatever it passed over,
\* leaves the registry, the counter, the threads, the pinboards and the
\* events as they were; and at the next scan pass the serial number, still
\* without an entry, can be taken into Tracker::new, and a call of
\* Tracker::new for a serial number can return and give it its Tracker.
C17_UnreadableSkippedThisPassOnly ==
    /\ [](/\ \A s \in PassedOver :
                /\ ~HasEntry(s)
                /\ open_attempts[s] = 0
                /\ IdsOf(s) = {} /\ ThreadsOf(s) = {} /\ TrackersOf(s) = {}
                /\ \A k \in DOMAIN events :
                      events[k].type = "Connected" =>
                         events[k].name # NameOf(s)
          /\ phase = "scan" =>
                \A s \in Serials :
                   ~HasEntry(s) =>
                      ENABLED (detect_connection_changes
                                  /\ Initializing' = {s})
          /\ \A s \in Initializing :
                ENABLED (Tracker_new_returns /\ IsLive(s)'))
    /\ [][(phase = "scan" /\ phase' = "translate" /\ scan_log'.opened = <<>>) =>
             UNCHANGED <<registry, pinboards, threads, events, written,
                         open_attempts, id_log, connect_log>>]_vars

\* A pass has met a controller with an unreadable product string and one
\* with an unreadable serial number: the first has no entry, while a
\* controller connected by an earlier pass is in the registry.
C17_Witness ==
    /\ phase = "translate"
    /\ scan_log.unreadable = {<<"serial_number">>, <<"product_string", "A">>}
    /\ PassedOver = {"A"}
    /\ ~HasEntry("A")
    /\ IsLive("B")

\* C18: an error on one device does not end the scan pass.  After a pass
\* whose refresh succeeded, every listed controller with readable serial
\* number and product string has a registry entry, whatever happened to
\* the other descriptors of the listing: it had one before the pass, or the
\* pass initialized it; and each serial number the pass initialized ends
\* with its own outcome, a live Tracker with its thread and its Connected
\* event among the tick's events, or its own permanent failure with the
\* error logged and nothing else.
C18_ErrorsAreLocal ==
    (phase = "translate" /\ scan_log.refresh = "Ok") =>
       /\ \A s \in scan_log.listed :
             /\ HasEntry(s)
             /\ s \in scan_log.skipped \/ s \in SeqToSet(scan_log.opened)
       /\ \A s \in SeqToSet(scan_log.opened) :
             /\ s \in scan_log.listed
             /\ \/ /\ IsLive(s)
                   /\ Cardinality(ThreadsOf(s)) = 1
                   /\ Cardinality(TrackersOf(s)) = 1
                   /\ \E k \in DOMAIN events :
                         /\ events[k].type = "Connected"
                         /\ events[k].gamepad \in IdsOf(s)
                   /\ \A e \in scan_log.errors : e[1] # s
                \/ /\ IsFailed(s)
                   /\ \E e \in scan_log.errors : e[1] = s
                   /\ ThreadsOf(s) = {} /\ TrackersOf(s) = {}
                   /\ \A k \in DOMAIN events :
                         events[k].gamepad \notin IdsOf(s)

\* A pass whose first descriptor failed to initialize has gone on to
\* connect the second one.
C18_Witness ==
    /\ phase = "translate"
    /\ \E f \in Serials, s \in Serials :
          /\ scan_log.opened = <<f, s>>
          /\ scan_log.listed = {f, s}
          /\ IsFailed(f) /\ IsLive(s)
          /\ Len(events) = 1 /\ events[1].type = "Connected"

\* The descriptors the filter accepts, computed from the two identifiers.
Candidates ==
    {d \in DeviceInfos : /\ d.vendor_id = NINTENDO_VENDOR_ID
                         /\ d.product_id \in HID_IDS}
\* The serial numbers only descriptors outside Candidates carry.
ForeignSerials ==
    {d.serial_number[1] : d \in {e \in DeviceInfos \ Candidates :
                                    e.serial_number # None}}
       \ {d.serial_number[1] : d \in {e \in Candidates : e.serial_number # None}}

\* C19: only descriptors with vendor 0x057e and a product in the accepted
\* set are candidates.  Whatever was listed, in any pass, a device that
\* fails the filter is never opened, gets no identifier, no registry entry,
\* no Tracker, no thread and no event, and the pass that met it notes it as
\* neither initialized nor known; the descriptors a pass passes over at the
\* filter are exactly descriptors with a foreign vendor or product.
C19_OnlyCandidatesAreTouched ==
    /\ \A s \in ForeignSerials :
          /\ open_attempts[s] = 0
          /\ ~HasEntry(s)
          /\ IdsOf(s) = {} /\ TrackersOf(s) = {} /\ ThreadsOf(s) = {}
          /\ s \notin SeqToSet(scan_log.opened)
          /\ s \notin scan_log.skipped
          /\ s \notin scan_log.listed
          /\ \A k \in DOMAIN events :
                events[k].type = "Connected" =>
                   events[k].name \notin {"Other vendor", "Other product"}
    /\ \A r \in scan_log.rejected :
          r[1] # NINTENDO_VENDOR_ID \/ r[2] \notin HID_IDS
    /\ Len(id_log) = Len(trackers)
                        + Cardinality({s \in AllSerials : IsFailed(s)})
                        + Cardinality(Initializing)

\* A pass has met a device of another vendor and a Nintendo device with
\* another product, and left both alone.
C19_Witness ==
    /\ phase = "translate"
    /\ scan_log.rejected = {<<NINTENDO_VENDOR_ID + 1, JOYCON_L_BT>>,
                            <<NINTENDO_VENDOR_ID, JOYCON_L_BT - 1>>}
    /\ ForeignSerials = {"D"}
    /\ open_attempts["D"] = 0 /\ ~HasEntry("D")
    /\ scan_log.opened = <<>>
    /\ events = <<>>

\* C20: the translator pass only reads.  It leaves the arena, both maps,
\* the identifier counter, the threads and every pinboard as they were and
\* only appends to the tick's events; a read leaves the report in
\* the pinboard, so a second pass over the pinboards as the first one left
\* them would send exactly the events the first one has just sent.
C20_TranslatorOnlyReads ==
    [][TranslatorStep =>
          /\ UNCHANGED <<registry, pinboards, threads, written,
                         open_attempts, connect_log, id_log>>
          /\ IsPrefix(events, events')
          /\ events' = events \o UpdateTrackers(<<>>, trackers', pinboards', 1)
          /\ \A i \in DOMAIN trackers :
                last_read'[i] = PinboardRead(pinboards', trackers'[i].last_report)]_vars

\* A pass has read a report and sent its axis events, and the report is
\* still in the pinboard.
C20_Witness ==
    /\ phase = "input"
    /\ \E i \in DOMAIN trackers :
          /\ last_read[i] # None
          /\ PinboardRead(pinboards, trackers[i].last_report) = last_read[i]
          /\ Len(AxisEventsOf(events, trackers[i].gamepad)) >= 2

====
